---- MODULE Spec2Model ----
(***************************************************************************)
(* Model of the Hindsight MCP server (servers/Hindsight/                   *)
(* hindsight_mcp_server.py): the process-wide analysis store, the two      *)
(* ingestion tools (which suspend while the Hindsight subprocess runs),    *)
(* the search tool, the summary tool and the listing tool.                 *)
(***************************************************************************)
EXTENDS Integers, Sequences, FiniteSets, TLC

VARIABLES
    analysis_results,   \* the store: insertion-ordered dict, as a sequence of entries
    calls,              \* the ingestion coroutines suspended at their await, each with
                        \* its arguments, its invocation number (seq), the calls that
                        \* had returned (done_before) and the size of the store
                        \* (stored_before) when it was invoked
    invoked,            \* number of ingestion calls invoked so far
    last,               \* what the most recently returned tool call returned
    createdBy           \* history: for each store write, the call that made it, the
                        \* id it wrote under and whether the call returned success

vars == <<analysis_results, calls, invoked, last, createdBy>>

(***************************************************************************)
(* Python strings.  TLC strings support Len, \o and SubSeq.                *)
(***************************************************************************)
LowerOf ==
    [A |-> "a", B |-> "b", C |-> "c", D |-> "d", E |-> "e", F |-> "f", G |-> "g",
     H |-> "h", I |-> "i", J |-> "j", K |-> "k", L |-> "l", M |-> "m", N |-> "n",
     O |-> "o", P |-> "p", Q |-> "q", R |-> "r", S |-> "s", T |-> "t", U |-> "u",
     V |-> "v", W |-> "w", X |-> "x", Y |-> "y", Z |-> "z"]

CharAt(s, i) == SubSeq(s, i, i)

LowerChar(c) == IF c \in DOMAIN LowerOf THEN LowerOf[c] ELSE c

RECURSIVE LowerRange(_, _, _)
\* the characters i..j of s in lower case (halving keeps the evaluation shallow)
LowerRange(s, i, j) ==
    IF i > j THEN ""
    ELSE IF i = j THEN LowerChar(CharAt(s, i))
    ELSE LowerRange(s, i, (i + j) \div 2) \o LowerRange(s, (i + j) \div 2 + 1, j)

\* str.lower()
Lower(s) == LowerRange(s, 1, Len(s))

\* the positions at which sub occurs in s
Occurrences(s, sub) ==
    {i \in 1..(Len(s) - Len(sub) + 1) : SubSeq(s, i, i + Len(sub) - 1) = sub}

\* the `in` operator on strings: sub in s
Contains(s, sub) == Len(sub) = 0 \/ Occurrences(s, sub) # {}

Least(starts) == CHOOSE i \in starts : \A j \in starts : i <= j

RECURSIVE CountFrom(_, _)
\* the scan of str.count: take the leftmost occurrence, go on behind it
CountFrom(starts, width) ==
    IF starts = {} THEN 0
    ELSE 1 + CountFrom({i \in starts : i >= Least(starts) + width}, width)

\* str.count(sub) for a non-empty sub: non-overlapping occurrences, left to right
Count(s, sub) == CountFrom(Occurrences(s, sub), Len(sub))

(***************************************************************************)
(* JSON values as json.loads builds them.  A number is the non-negative    *)
(* integer top * 10^18 + hi * 10^9 + lo (three limbs, so that FILETIME and *)
(* nanosecond scale values fit); Infinity and NaN are the floats           *)
(* json.loads accepts; a dict is the sequence of its <<key, value>> pairs  *)
(* in insertion order.                                                     *)
(***************************************************************************)
Limb == 10^9

Str(s)           == [t |-> "str",  s |-> s,  top |-> 0,   hi |-> 0,  lo |-> 0]
Num(top, hi, lo) == [t |-> "num",  s |-> "", top |-> top, hi |-> hi, lo |-> lo]
Small(n)         == Num(0, 0, n)
Null             == [t |-> "null", s |-> "", top |-> 0,   hi |-> 0,  lo |-> 0]
List             == [t |-> "list", s |-> "", top |-> 0,   hi |-> 0,  lo |-> 0]   \* a non-empty JSON array
Infinity         == [t |-> "inf",  s |-> "", top |-> 0,   hi |-> 0,  lo |-> 0]
NaN              == [t |-> "nan",  s |-> "", top |-> 0,   hi |-> 0,  lo |-> 0]

Dict(pairs) == [isdict |-> TRUE,  d |-> pairs, v |-> Null]
Scalar(v)   == [isdict |-> FALSE, d |-> <<>>,  v |-> v]       \* a JSON value that is no object

\* Python truthiness of a value
Truthy(v) ==
    CASE v.t = "str"  -> v.s # ""
      [] v.t = "num"  -> v.top # 0 \/ v.hi # 0 \/ v.lo # 0
      [] v.t = "null" -> FALSE
      [] OTHER        -> TRUE

\* key in item
Has(item, k) == \E i \in 1..Len(item.d) : item.d[i][1] = k

\* item.get(k)
Get(item, k) ==
    IF Has(item, k)
    THEN item.d[CHOOSE i \in 1..Len(item.d) : item.d[i][1] = k][2]
    ELSE Null

\* item.get(k, default)
GetOr(item, k, default) == IF Has(item, k) THEN Get(item, k) ELSE default

\* a or b
Or(a, b) == IF Truthy(a) THEN a ELSE b

RECURSIVE Digits(_)
\* str(n) of a natural number
Digits(n) ==
    IF n < 10 THEN CharAt("0123456789", n + 1)
    ELSE Digits(n \div 10) \o CharAt("0123456789", (n % 10) + 1)

RECURSIVE Pad(_, _)
Pad(s, w) == IF Len(s) >= w THEN s ELSE Pad("0" \o s, w)

\* json.dumps of a value
DumpValue(v) ==
    CASE v.t = "str"  -> "\"" \o v.s \o "\""
      [] v.t = "num"  -> IF v.top # 0
                         THEN Digits(v.top) \o Pad(Digits(v.hi), 9) \o Pad(Digits(v.lo), 9)
                         ELSE IF v.hi # 0 THEN Digits(v.hi) \o Pad(Digits(v.lo), 9)
                         ELSE Digits(v.lo)
      [] v.t = "null" -> "null"
      [] v.t = "inf"  -> "Infinity"
      [] v.t = "nan"  -> "NaN"
      [] OTHER        -> "[1]"

RECURSIVE DumpPairs(_)
DumpPairs(d) ==
    IF Len(d) = 0 THEN ""
    ELSE "\"" \o d[1][1] \o "\": " \o DumpValue(d[1][2])
         \o (IF Len(d) > 1 THEN ", " ELSE "") \o DumpPairs(Tail(d))

\* json.dumps(item) of a dict
JsonDumps(item) == "{" \o DumpPairs(item.d) \o "}"

(***************************************************************************)
(* Calendar dates and instants.  A date is its day number (days since      *)
(* 1970-01-01); an instant is a day number and the second of that day.     *)
(***************************************************************************)
IsDigit(c) == Len(c) = 1 /\ Contains("0123456789", c)

DigitVal(c) == CHOOSE n \in 0..9 : CharAt("0123456789", n + 1) = c

AllDigits(s) == \A i \in 1..Len(s) : IsDigit(CharAt(s, i))

RECURSIVE ToNat(_)
ToNat(s) == IF Len(s) = 0 THEN 0
            ELSE ToNat(SubSeq(s, 1, Len(s) - 1)) * 10 + DigitVal(CharAt(s, Len(s)))

IsLeap(y) == (y % 4 = 0 /\ y % 100 # 0) \/ y % 400 = 0

DaysInMonth(y, m) ==
    IF m = 2 THEN (IF IsLeap(y) THEN 29 ELSE 28)
    ELSE IF m \in {4, 6, 9, 11} THEN 30 ELSE 31

\* the proleptic Gregorian day number of y-m-d, counted from 1970-01-01
DaysFromCivil(y, m, d) ==
    LET yy  == IF m <= 2 THEN y - 1 ELSE y
        era == yy \div 400
        yoe == yy - era * 400
        mp  == IF m > 2 THEN m - 3 ELSE m + 9
        doy == (153 * mp + 2) \div 5 + d - 1
        doe == yoe * 365 + yoe \div 4 - yoe \div 100 + doy
    IN era * 146097 + doe - 719468

NoDate == [ok |-> FALSE, day |-> 0, sod |-> 0, aware |-> FALSE]

\* the date y-m-d, when it is one
CivilDate(y, m, d) ==
    IF y >= 1 /\ m \in 1..12 /\ d >= 1 /\ d <= DaysInMonth(y, m)
    THEN [ok |-> TRUE, day |-> DaysFromCivil(y, m, d), sod |-> 0, aware |-> FALSE]
    ELSE NoDate

\* the leading YYYY-MM-DD of s
ParseYmd(s) ==
    IF /\ Len(s) >= 10
       /\ AllDigits(SubSeq(s, 1, 4) \o SubSeq(s, 6, 7) \o SubSeq(s, 9, 10))
       /\ CharAt(s, 5) = "-" /\ CharAt(s, 8) = "-"
    THEN CivilDate(ToNat(SubSeq(s, 1, 4)), ToNat(SubSeq(s, 6, 7)), ToNat(SubSeq(s, 9, 10)))
    ELSE NoDate

\* the second of the day of h:m:s, or -1
SecondOfDay(h, m, s) == IF h <= 23 /\ m <= 59 /\ s <= 59 THEN h * 3600 + m * 60 + s ELSE -1

\* HH:MM:SS at positions 12..19 of s, as the second of the day, or -1
ParseHms(s) ==
    IF /\ Len(s) >= 19
       /\ AllDigits(SubSeq(s, 12, 13) \o SubSeq(s, 15, 16) \o SubSeq(s, 18, 19))
       /\ CharAt(s, 14) = ":" /\ CharAt(s, 17) = ":"
    THEN SecondOfDay(ToNat(SubSeq(s, 12, 13)), ToNat(SubSeq(s, 15, 16)), ToNat(SubSeq(s, 18, 19)))
    ELSE -1

\* the offset of sign, hours and minutes in seconds east of UTC; 1 when out of range
OffsetSeconds(sign, h, m) ==
    IF h <= 23 /\ m <= 59 THEN (IF sign = "+" THEN 1 ELSE -1) * (h * 3600 + m * 60) ELSE 1

\* a UTC offset suffix "Z", "+HH:MM" or "-HH:MM", in seconds east of UTC; 1 when malformed
ParseOffset(z) ==
    IF z = "Z" THEN 0
    ELSE IF /\ Len(z) = 6 /\ CharAt(z, 1) \in {"+", "-"} /\ CharAt(z, 4) = ":"
            /\ AllDigits(SubSeq(z, 2, 3) \o SubSeq(z, 5, 6))
         THEN OffsetSeconds(CharAt(z, 1), ToNat(SubSeq(z, 2, 3)), ToNat(SubSeq(z, 5, 6)))
         ELSE 1

\* the date ymd with the time of day sod and, when one is given, the offset off
WithTime(s, ymd, sod, off) ==
    IF ~ymd.ok THEN NoDate
    ELSE IF Len(s) = 10 THEN ymd
    ELSE IF ~(CharAt(s, 11) \in {"T", " "} /\ sod >= 0) THEN NoDate
    ELSE IF Len(s) = 19 THEN [ymd EXCEPT !.sod = sod]
    ELSE IF off = 1 THEN NoDate
    ELSE [ymd EXCEPT !.sod = sod - off, !.aware = TRUE]

\* The ISO 8601 forms "YYYY-MM-DD" and "YYYY-MM-DD(T| )HH:MM:SS[Z|+HH:MM|-HH:MM]":
\* the instant in local terms and whether an offset was given; every other
\* string is rejected.
ParseIso(s) == WithTime(s, ParseYmd(s), ParseHms(s), ParseOffset(SubSeq(s, 20, Len(s))))

\* dt.astimezone(timezone.utc) for an aware instant, dt.replace(tzinfo=utc) for a naive one
ToUtc(p) ==
    IF p.sod < 0 THEN [p EXCEPT !.day = p.day - 1, !.sod = p.sod + 86400]
    ELSE IF p.sod >= 86400 THEN [p EXCEPT !.day = p.day + 1, !.sod = p.sod - 86400]
    ELSE p

\* datetime.fromisoformat(s): ok = FALSE is ValueError
FromIsoformat(s) == ParseIso(s)

\* dateutil.parser.parse(s), on the strings used here: ISO 8601 dates and
\* date-times, which it reads as fromisoformat does, and strings that hold no
\* date, which it rejects; ok = FALSE is ParserError
DateutilParse(s) == ParseIso(s)

(***************************************************************************)
(* _parse_hindsight_timestamp.  Seconds are a pair hi * 10^9 + lo with a   *)
(* flag for a non-zero fraction.                                           *)
(***************************************************************************)
Sec(hi, lo, frac) == [hi |-> hi, lo |-> lo, frac |-> frac]

SmallSec(n, frac) == Sec(n \div Limb, n % Limb, frac)

\* a > b on two-limb numbers (b without fraction)
SecGt(a, bhi, blo) ==
    \/ a.hi > bhi
    \/ a.hi = bhi /\ a.lo > blo
    \/ a.hi = bhi /\ a.lo = blo /\ a.frac

\* v > 10^(9 + e) for a three-limb number v, 0 <= e < 9
NumGtPow(v, e) == v.top > 0 \/ v.hi > 10^e \/ (v.hi = 10^e /\ v.lo > 0)

FiletimeOffsetHi == 11
FiletimeOffsetLo == 644473600

\* a reduction that tries the smallest threshold first
ReduceSmallestFirst(v) ==
    IF NumGtPow(v, 1)
    THEN Sec(v.top * 10^6 + v.hi \div 1000, (v.hi % 1000) * 10^6 + v.lo \div 1000,
             v.lo % 1000 # 0)
    ELSE Sec(v.hi, v.lo, FALSE)

\* lines 429-431: the unit reduction
ReduceUnit(v) ==
    IF NumGtPow(v, 6) THEN Sec(v.top, v.hi, v.lo # 0)
    ELSE IF NumGtPow(v, 3) THEN SmallSec(v.hi * 1000 + v.lo \div 10^6, v.lo % 10^6 # 0)
    ELSE IF NumGtPow(v, 1) THEN SmallSec(v.hi * 10^6 + v.lo \div 1000, v.lo % 1000 # 0)
    ELSE Sec(v.hi, v.lo, FALSE)

\* line 432: the epoch correction
CorrectEpoch(r) ==
    IF SecGt(r, FiletimeOffsetHi, FiletimeOffsetLo)
    THEN IF r.lo >= FiletimeOffsetLo
         THEN Sec(r.hi - FiletimeOffsetHi, r.lo - FiletimeOffsetLo, r.frac)
         ELSE Sec(r.hi - FiletimeOffsetHi - 1, r.lo + Limb - FiletimeOffsetLo, r.frac)
    ELSE r

\* lines 429-432
ReduceTimestamp(v) == CorrectEpoch(ReduceUnit(v))

TsResult(k, day, sod) == [k |-> k, day |-> day, sod |-> sod]

\* datetime.fromtimestamp(sec, tz=utc): "dt", "ValueError" (year out of range),
\* or "OSError" (beyond what gmtime converts; OverflowError beyond time_t)
FromTimestamp(sec) ==
    IF ~SecGt(sec, 253, 402300799)
    THEN TsResult("dt", sec.hi * 11574 + (sec.hi * 6400 + sec.lo) \div 86400,
                  (sec.hi * 6400 + sec.lo) % 86400)
    ELSE IF ~SecGt(sec, 60000000, 0) THEN TsResult("ValueError", 0, 0)
    ELSE TsResult("OSError", 0, 0)

NoTimestamp == TsResult("none", 0, 0)

TimestampKeys == <<"datetime", "timestamp", "visit_time", "start_time", "last_visit_time">>

\* lines 428-433: a number.  "next" is the `continue` of the except clause,
\* "raise" an exception the except clause does not name.
NumericTimestamp(r) ==
    IF r.k = "dt" THEN r
    ELSE IF r.k = "ValueError" THEN TsResult("next", 0, 0)
    ELSE TsResult("raise", 0, 0)

\* lines 434-436: a string
StringTimestamp(p) ==
    IF p.ok THEN TsResult("dt", p.day, p.sod) ELSE TsResult("next", 0, 0)

\* lines 427-438 for the value v of a candidate field; a value that is neither
\* a number nor a string falls out of the try and the loop goes on
TimestampOf(v) ==
    IF ~Truthy(v) THEN TsResult("next", 0, 0)
    ELSE CASE v.t = "num" -> NumericTimestamp(FromTimestamp(ReduceTimestamp(v)))
           [] v.t = "inf" -> TsResult("raise", 0, 0)
           [] v.t = "nan" -> TsResult("next", 0, 0)
           [] v.t = "str" -> StringTimestamp(ToUtc(DateutilParse(v.s)))
           [] OTHER -> TsResult("next", 0, 0)

\* lines 425-438: one candidate field
TryTimestampKey(item, key) == TimestampOf(Get(item, key))

\* the loop of line 424: the first field that returns or raises decides
FirstUsable(r, rest) == IF r.k = "next" THEN rest ELSE r

RECURSIVE ParseTimestampFrom(_, _)
ParseTimestampFrom(item, i) ==
    IF i > Len(TimestampKeys) THEN NoTimestamp
    ELSE FirstUsable(TryTimestampKey(item, TimestampKeys[i]), ParseTimestampFrom(item, i + 1))

\* _parse_hindsight_timestamp(item): k = "dt" (an instant), "none" or "raise"
ParseHindsightTimestamp(item) == ParseTimestampFrom(item, 1)

(***************************************************************************)
(* Python's list.sort / sorted with reverse=True: stable, so elements with *)
(* equal keys keep their original relative order.                          *)
(***************************************************************************)
RECURSIVE InsertDesc(_, _, _)
\* insert index x after every index whose key is >= x's key; less[i][j] is key(i) < key(j)
InsertDesc(sorted, x, less) ==
    IF Len(sorted) = 0 THEN <<x>>
    ELSE IF less[sorted[1]][x] THEN <<x>> \o sorted
    ELSE <<sorted[1]>> \o InsertDesc(Tail(sorted), x, less)

RECURSIVE SortDescFrom(_, _, _, _)
SortDescFrom(n, i, acc, less) ==
    IF i > n THEN acc
    ELSE SortDescFrom(n, i + 1, InsertDesc(acc, i, less), less)

Permuted(xs, perm) == [k \in 1..Len(xs) |-> xs[perm[k]]]

RECURSIVE InsertAsc(_, _, _)
\* insert index x before the first index whose key is greater than x's key
InsertAsc(sorted, x, less) ==
    IF Len(sorted) = 0 THEN <<x>>
    ELSE IF less[x][sorted[1]] THEN <<x>> \o sorted
    ELSE <<sorted[1]>> \o InsertAsc(Tail(sorted), x, less)

RECURSIVE SortAscFrom(_, _, _, _)
SortAscFrom(n, i, acc, less) ==
    IF i > n THEN acc
    ELSE SortAscFrom(n, i + 1, InsertAsc(acc, i, less), less)

Reversed(xs) == [k \in 1..Len(xs) |-> xs[Len(xs) + 1 - k]]

\* a descending sort made of an ascending stable sort and a reversal, which
\* turns the order of elements with equal keys around
SortAscReversed(xs, less) == Permuted(xs, Reversed(SortAscFrom(Len(xs), 1, <<>>, less)))

\* sorted(xs, key=..., reverse=True), less[i][j] being key(xs[i]) < key(xs[j])
SortDesc(xs, less) == Permuted(xs, SortDescFrom(Len(xs), 1, <<>>, less))

Take(xs, n) == SubSeq(xs, 1, IF Len(xs) < n THEN Len(xs) ELSE n)

(***************************************************************************)
(* The derived category of a record.                                       *)
(***************************************************************************)
\* line 494 and line 584: item.get('artifact') or item.get('type') or item.get('category') or 'unknown'
ReportedCategory(item) ==
    Or(Or(Or(Get(item, "artifact"), Get(item, "type")), Get(item, "category")), Str("unknown"))

\* line 483: item.get('artifact') or item.get('type') or item.get('category') or ''
FilterCategory(item) ==
    Or(Or(Or(Get(item, "artifact"), Get(item, "type")), Get(item, "category")), Str(""))

(***************************************************************************)
(* search_analysis_results.                                                *)
(***************************************************************************)
DisplayLimit == 20

\* the store as a dict
StoreKeys(store) == {store[i].id : i \in 1..Len(store)}
StoreGet(store, id) == store[CHOOSE i \in 1..Len(store) : store[i].id = id].data

NoId == [kind |-> "", n |-> 0]

Result(kind, id) ==
    [kind |-> kind, id |-> id, matches |-> <<>>, shown |-> <<>>, more |-> 0, summary |-> <<>>,
     listing |-> <<>>]

\* one boundary of date_range: "skip" (not set), "ok", "ValueError" or "TypeError"
\* (fromisoformat of a value that is no string)
Boundary(v) ==
    IF ~Truthy(v) THEN "skip"
    ELSE IF v.t # "str" THEN "TypeError"
    ELSE IF FromIsoformat(v.s).ok THEN "ok"
    ELSE "ValueError"

BoundaryDay(v) == IF Boundary(v) = "ok" THEN FromIsoformat(v.s).day ELSE 0

NoRange == [k |-> "ok", has_start |-> FALSE, start |-> 0, has_end |-> FALSE, end |-> 0]

\* lines 455-461: start_date is converted first, then end_date
ParsedRange(s, sday, e, eday) ==
    IF s \in {"ValueError", "TypeError"} THEN [NoRange EXCEPT !.k = s]
    ELSE IF e \in {"ValueError", "TypeError"} THEN [NoRange EXCEPT !.k = e]
    ELSE [k |-> "ok", has_start |-> s = "ok", start |-> sday, has_end |-> e = "ok", end |-> eday]

\* lines 453-461: k is "ok", "ValueError" (the invalid-date result) or
\* "TypeError"; has_start/has_end say which of start_date/end_date are set
ParseDateRange(date_range) ==
    IF ~date_range.isdict
    THEN (IF Truthy(date_range.v) THEN [NoRange EXCEPT !.k = "TypeError"] ELSE NoRange)
    ELSE IF Len(date_range.d) = 0 THEN NoRange
    ELSE ParsedRange(Boundary(Get(date_range, "start_date")),
                     BoundaryDay(Get(date_range, "start_date")),
                     Boundary(Get(date_range, "end_date")),
                     BoundaryDay(Get(date_range, "end_date")))

\* lines 473-479
DateDecision(item_dt, range) ==
    IF item_dt.k = "raise" THEN "raise"
    ELSE IF item_dt.k = "none" THEN "skip"
    ELSE IF range.has_start /\ item_dt.day < range.start THEN "skip"
    ELSE IF range.has_end /\ item_dt.day > range.end THEN "skip"
    ELSE "keep"

\* lines 470-479: "keep", "skip" (continue) or "raise"
DateFilter(item, range) ==
    IF ~(range.has_start \/ range.has_end) THEN "keep"
    ELSE DateDecision(ParseHindsightTimestamp(item), range)

\* lines 483-486
CategoryDecision(category, artifact_type) ==
    IF category.t # "str" THEN "raise"
    ELSE IF Contains(Lower(category.s), Lower(artifact_type)) THEN "keep"
    ELSE "skip"

\* lines 481-486: "keep", "skip" or "raise" (.lower() of a value that is no string)
CategoryFilter(item, artifact_type) ==
    IF artifact_type = "" THEN "keep"
    ELSE CategoryDecision(FilterCategory(item), artifact_type)

\* lines 488-491
TermFilter(item, search_term) ==
    IF search_term # "" /\ ~Contains(Lower(JsonDumps(item)), search_term) THEN "skip" ELSE "keep"

\* the filters in the order of the loop body: the first that does not keep decides
FirstDecision(date, category, term) ==
    IF date # "keep" THEN date ELSE IF category # "keep" THEN category ELSE term

\* a loop body in which an active category filter alone decides
CategoryDecidesAlone(item, search_term, artifact_type, range) ==
    IF ~item.isdict THEN "skip"
    ELSE IF artifact_type # "" THEN CategoryFilter(item, artifact_type)
    ELSE FirstDecision(DateFilter(item, range), "keep", TermFilter(item, search_term))

\* lines 467-491 for one element of the stored list
ItemOutcome(item, search_term, artifact_type, range) ==
    IF ~item.isdict THEN "skip"
    ELSE FirstDecision(DateFilter(item, range), CategoryFilter(item, artifact_type),
                       TermFilter(item, search_term))

\* lines 493-497; pos is the position of the item in the stored list (the
\* match refers to the stored object itself)
Match(item, pos, search_term) ==
    [category  |-> ReportedCategory(item),
     item      |-> item,
     pos       |-> pos,
     relevance |-> IF search_term # "" THEN Count(Lower(JsonDumps(item)), search_term) ELSE 1]

RECURSIVE OutcomesFrom(_, _, _, _, _)
OutcomesFrom(results, i, search_term, artifact_type, range) ==
    IF i > Len(results) THEN <<>>
    ELSE <<ItemOutcome(results[i], search_term, artifact_type, range)>>
         \o OutcomesFrom(results, i + 1, search_term, artifact_type, range)

\* lines 466-491: what the loop body decides for each element, in order
Outcomes(results, search_term, artifact_type, range) ==
    OutcomesFrom(results, 1, search_term, artifact_type, range)

RECURSIVE CollectMatches(_, _, _, _)
\* lines 464-497: the matches list in the order of the stored list
CollectMatches(results, outcomes, i, search_term) ==
    IF i > Len(results) THEN <<>>
    ELSE (IF outcomes[i] = "keep" THEN <<Match(results[i], i, search_term)>> ELSE <<>>)
         \o CollectMatches(results, outcomes, i + 1, search_term)

LessRelevant(a, b) == a.relevance < b.relevance

\* line 500: matches.sort(key=lambda x: x["relevance"], reverse=True)
RankMatches(matches) ==
    SortDesc(matches, [i \in 1..Len(matches) |-> [j \in 1..Len(matches) |->
                          LessRelevant(matches[i], matches[j])]])

\* lines 502-527: the text built from the ranked matches; formatting a shown
\* match normalizes its timestamp again (line 512)
FormatMatches(analysis_id, matches, shown) ==
    IF Len(matches) = 0 THEN Result("no_matches", analysis_id)
    ELSE IF \E i \in 1..Len(shown) : ParseHindsightTimestamp(shown[i].item).k = "raise"
    THEN Result("raise", NoId)
    ELSE [Result("found", analysis_id) EXCEPT
             !.matches = matches,
             !.shown = shown,
             !.more = IF Len(matches) > DisplayLimit THEN Len(matches) - DisplayLimit ELSE 0]

\* a search that cuts the list of matches before it counts them
FormatTruncated(analysis_id, matches) ==
    FormatMatches(analysis_id, Take(matches, DisplayLimit), Take(matches, DisplayLimit))

\* lines 500-508: sorted matches, and the slice matches[:20] that is shown
FormatRanked(analysis_id, matches) ==
    FormatMatches(analysis_id, matches, Take(matches, DisplayLimit))

\* lines 463-527
SearchStored(analysis_id, results, outcomes, search_term) ==
    IF \E i \in 1..Len(results) : outcomes[i] = "raise" THEN Result("raise", NoId)
    ELSE FormatRanked(analysis_id,
                      RankMatches(CollectMatches(results, outcomes, 1, search_term)))

\* lines 453-527: the session's records searched with the parsed range
SearchSession(analysis_id, results, search_term, artifact_type, range) ==
    IF range.k = "ValueError" THEN Result("invalid_date", NoId)
    ELSE IF range.k = "TypeError" THEN Result("raise", NoId)
    ELSE SearchStored(analysis_id, results,
                      Outcomes(results, search_term, artifact_type, range), search_term)

\* a search that converts the date range before it looks the id up
SearchDatesFirst(store, analysis_id, search_term, artifact_type, range) ==
    IF range.k = "ValueError" THEN Result("invalid_date", NoId)
    ELSE IF analysis_id \notin StoreKeys(store) THEN Result("not_found", analysis_id)
    ELSE SearchSession(analysis_id, StoreGet(store, analysis_id).results,
                       search_term, artifact_type, range)

RECURSIVE AllRecords(_)
\* the records of all the sessions of the store, one session after the other
AllRecords(store) ==
    IF Len(store) = 0 THEN <<>> ELSE store[1].data.results \o AllRecords(Tail(store))

\* a search that goes through the records of every session of the store
SearchAllSessions(store, analysis_id, search_term, artifact_type, range) ==
    IF analysis_id \notin StoreKeys(store) THEN Result("not_found", analysis_id)
    ELSE SearchSession(analysis_id, AllRecords(store), search_term, artifact_type, range)

\* lines 450-527, the arguments read
SearchWith(store, analysis_id, search_term, artifact_type, range) ==
    IF analysis_id \notin StoreKeys(store) THEN Result("not_found", analysis_id)
    ELSE SearchSession(analysis_id, StoreGet(store, analysis_id).results,
                       search_term, artifact_type, range)

\* a search that compares the term as the caller typed it
SearchTermAsTyped(store, args) ==
    SearchWith(store, args.analysis_id, args.search_term, args.artifact_type,
               ParseDateRange(args.date_range))

\* search_analysis_results(arguments) on the store
SearchAnalysisResults(store, args) ==
    SearchWith(store, args.analysis_id, Lower(args.search_term), args.artifact_type,
               ParseDateRange(args.date_range))

(***************************************************************************)
(* Python's ordering of values, as sorted() uses it on the sort keys.      *)
(***************************************************************************)
\* the printable ASCII characters in code-point order (without the backquote)
Ascii == " !\"#$%&'()*+,-./0123456789:;<=>?@ABCDEFGHIJKLMNOPQRSTUVWXYZ[\\]^_abcdefghijklmnopqrstuvwxyz{|}~"

Rank(c) == CHOOSE i \in 1..Len(Ascii) : CharAt(Ascii, i) = c

RECURSIVE StrLess(_, _)
\* a < b on strings
StrLess(a, b) ==
    IF Len(b) = 0 THEN FALSE
    ELSE IF Len(a) = 0 THEN TRUE
    ELSE IF CharAt(a, 1) = CharAt(b, 1) THEN StrLess(SubSeq(a, 2, Len(a)), SubSeq(b, 2, Len(b)))
    ELSE Rank(CharAt(a, 1)) < Rank(CharAt(b, 1))

OrderClass(v) == IF v.t \in {"num", "inf", "nan"} THEN "number" ELSE v.t

\* a < b raises TypeError unless both are numbers, both strings or both lists
Comparable(a, b) == OrderClass(a) = OrderClass(b) /\ a.t # "null"

\* a < b on comparable values
ValueLess(a, b) ==
    CASE a.t = "str" -> StrLess(a.s, b.s)
      [] a.t = "num" /\ b.t = "num" ->
            \/ a.top < b.top
            \/ a.top = b.top /\ a.hi < b.hi
            \/ a.top = b.top /\ a.hi = b.hi /\ a.lo < b.lo
      [] a.t = "num" /\ b.t = "inf" -> TRUE
      [] OTHER -> FALSE

\* sorting a list of two or more keys raises TypeError when two of them do not compare
SortRaises(keys) ==
    \E i, j \in 1..Len(keys) : i # j /\ ~Comparable(keys[i], keys[j])

(***************************************************************************)
(* create_analysis_summary.                                                *)
(***************************************************************************)
TopCategories == 10
TopHighlights == 3
UrlDisplayLen == 50

\* line 585: buckets[category] = buckets.get(category, 0) + 1
Count1(buckets, category) ==
    IF \E b \in 1..Len(buckets) : buckets[b].category = category
    THEN [b \in 1..Len(buckets) |->
             IF buckets[b].category = category
             THEN [buckets[b] EXCEPT !.count = @ + 1] ELSE buckets[b]]
    ELSE Append(buckets, [category |-> category, count |-> 1])

RECURSIVE Tally(_, _, _)
\* lines 580-585: the buckets dict, in insertion order
Tally(items, i, buckets) ==
    IF i > Len(items) THEN buckets
    ELSE IF ~items[i].isdict THEN Tally(items, i + 1, buckets)
    ELSE Tally(items, i + 1, Count1(buckets, ReportedCategory(items[i])))

FewerItems(a, b) == a.count < b.count

\* the buckets left in the order of the tally
BucketsAsTallied(buckets) == buckets

\* line 587: sorted(buckets.items(), key=lambda x: x[1], reverse=True)[:10]
SortedBuckets(buckets) ==
    SortDesc(buckets, [i \in 1..Len(buckets) |-> [j \in 1..Len(buckets) |->
                          FewerItems(buckets[i], buckets[j])]])

TopBuckets(items) == Take(SortedBuckets(Tally(items, 1, <<>>)), TopCategories)

HasUrl(it) == it.isdict /\ Has(it, "url")

\* line 592
UrlItems(items) == SelectSeq(items, HasUrl)

VisitCount(it) == GetOr(it, "visit_count", Small(0))
FewerVisits(a, b) == ValueLess(VisitCount(a), VisitCount(b))

\* lines 594-595
TopUrls(urls) ==
    Take(SortDesc(urls, [i \in 1..Len(urls) |-> [j \in 1..Len(urls) |->
                            FewerVisits(urls[i], urls[j])]]), TopHighlights)

\* line 598: (u.get('url') or '')[:50] + ('...' if len(u.get('url') or '') > 50 else '')
Shorten(url) ==
    IF Len(url) > UrlDisplayLen THEN SubSeq(url, 1, UrlDisplayLen) \o "..." ELSE url

RenderUrl(u) == Shorten(Or(Get(u, "url"), Str("")).s)

\* str(value)
ToStr(c) == IF c.t = "str" THEN c.s ELSE DumpValue(c)

\* line 602: the records counted as downloads
IsDownload(it) ==
    /\ it.isdict
    /\ \/ Contains(Lower(ToStr(Or(Or(Get(it, "artifact"), Get(it, "type")), Str("")))),
                   "download")
       \/ Has(it, "target_path")

Downloads(items) == SelectSeq(items, IsDownload)

StartTime(it) == GetOr(it, "start_time", Str(""))
StartsEarlier(a, b) == ValueLess(StartTime(a), StartTime(b))

\* line 604
RecentDownloads(downloads) ==
    Take(SortDesc(downloads, [i \in 1..Len(downloads) |-> [j \in 1..Len(downloads) |->
                                 StartsEarlier(downloads[i], downloads[j])]]), TopHighlights)

RECURSIVE LastSegment(_)
\* s.split('/')[-1]
LastSegment(s) ==
    IF Len(s) = 0 THEN ""
    ELSE IF CharAt(s, Len(s)) = "/" THEN ""
    ELSE LastSegment(SubSeq(s, 1, Len(s) - 1)) \o CharAt(s, Len(s))

\* line 607
RenderDownload(dl) == LastSegment(Or(Get(dl, "target_path"), Str("")).s)

NoSummary == [k |-> "raise", total |-> 0, buckets |-> <<>>, top_visited |-> <<>>,
              recent_downloads |-> <<>>]

\* line 585 raises TypeError for a category that cannot be a dict key
Unhashable(items) ==
    \E i \in 1..Len(items) : items[i].isdict /\ ReportedCategory(items[i]).t = "list"

\* lines 598 and 607 raise for a field that is set and is no string
NotText(shown, key) ==
    \E i \in 1..Len(shown) : Or(Get(shown[i], key), Str("")).t # "str"

Raised == [raise |-> TRUE, shown |-> <<>>]
Rendered(shown) == [raise |-> FALSE, shown |-> shown]

\* lines 592-599: the rendered highlight, or the exception of the sort or the slice
RenderedUrls(top_urls) ==
    IF NotText(top_urls, "url") THEN Raised
    ELSE Rendered([i \in 1..Len(top_urls) |-> RenderUrl(top_urls[i])])

TopVisited(urls) ==
    IF SortRaises([i \in 1..Len(urls) |-> VisitCount(urls[i])]) THEN Raised
    ELSE RenderedUrls(TopUrls(urls))

\* lines 602-608: the rendered highlight, or the exception of the sort or the split
RenderedDownloads(recent) ==
    IF NotText(recent, "target_path") THEN Raised
    ELSE Rendered([i \in 1..Len(recent) |-> RenderDownload(recent[i])])

RecentlyDownloaded(downloads) ==
    IF SortRaises([i \in 1..Len(downloads) |-> StartTime(downloads[i])]) THEN Raised
    ELSE RenderedDownloads(RecentDownloads(downloads))

\* lines 572-612 put together
SummaryOf(items, unhashable, top_visited, recent_downloads) ==
    IF unhashable \/ top_visited.raise \/ recent_downloads.raise THEN NoSummary
    ELSE [k |-> "ok", total |-> Len(items), buckets |-> TopBuckets(items),
          top_visited |-> top_visited.shown, recent_downloads |-> recent_downloads.shown]

\* create_analysis_summary(results)
CreateAnalysisSummary(items) ==
    SummaryOf(items, Unhashable(items), TopVisited(UrlItems(items)),
              RecentlyDownloaded(Downloads(items)))

(***************************************************************************)
(* The lines of the JSONL file Hindsight writes, and reading them.         *)
(***************************************************************************)
BlankLine   == [k |-> "blank", v |-> Scalar(Null)]   \* empty after strip()
BadLine     == [k |-> "bad",   v |-> Scalar(Null)]   \* json.loads raises JSONDecodeError
JsonLine(v) == [k |-> "json",  v |-> v]              \* json.loads returns v

RECURSIVE ReadJsonl(_)
\* lines 250-259 (and 290-299, 378-387): the items list
ReadJsonl(lines) ==
    IF Len(lines) = 0 THEN <<>>
    ELSE (IF lines[1].k = "json" THEN <<lines[1].v>> ELSE <<>>) \o ReadJsonl(Tail(lines))

(***************************************************************************)
(* The store.                                                              *)
(***************************************************************************)
\* f"history_{n}" / f"profile_{n}"
AnalysisId(kind, n) == [kind |-> kind, n |-> n]

\* a store rebound to a dict that holds the new session only
StoreOnlyLatest(store, id, data) == <<[id |-> id, data |-> data]>>

\* a store that puts the new session in front of the others
StoreInFront(store, id, data) == <<[id |-> id, data |-> data]>> \o store

\* analysis_results[id] = data: a new key is appended, an existing key keeps its place
StorePut(store, id, data) ==
    IF id \in StoreKeys(store)
    THEN [i \in 1..Len(store) |-> IF store[i].id = id THEN [id |-> id, data |-> data] ELSE store[i]]
    ELSE Append(store, [id |-> id, data |-> data])

\* a numbering that starts at 0
NumberFromZero(store) == Len(store)

\* lines 262 and 390: len(analysis_results) + 1
NextAnalysisNumber(store) == Len(store) + 1

Entry(source_key, source, browser_type, cache_path, results, timestamp) ==
    [source_key |-> source_key, source |-> source, browser_type |-> browser_type,
     cache_path |-> cache_path, results |-> results, timestamp |-> timestamp]

(***************************************************************************)
(* The environment: the file system, the Hindsight subprocess.             *)
(***************************************************************************)
MaxCalls       == 2     \* ingestion coroutines that can be in flight together
MaxInvocations == 2     \* ingestion calls over a run

ExistingPaths == {"/evidence/Default/History", "/evidence/Default"}
HistoryPaths  == {"/evidence/Default/History", "/nonexistent/path"}
ProfilePaths  == {"/evidence/Default", "/nonexistent/path"}
BrowserTypes  == {"Chrome"}
OutputFormats == {"jsonl", "xlsx"}

UrlA    == Dict(<< <<"url", Str("http://a.com")>>, <<"visit_count", Small(5)>> >>)
UrlB    == Dict(<< <<"url", Str("http://b.com")>>, <<"title", Str("B.com")>>,
                   <<"visit_count", Small(9)>>, <<"type", Str("url")>>,
                   <<"timestamp", Small(1609459200)>> >>)
UrlText == Dict(<< <<"url", Str("http://c.com")>>, <<"visit_count", Str("7")>> >>)

\* what the subprocess can leave in the output file
Outputs ==
    { <<BlankLine, JsonLine(UrlA), BadLine, JsonLine(Scalar(Small(5))), JsonLine(UrlB)>>,
      <<JsonLine(UrlA), JsonLine(UrlText)>> }

\* how a run of the subprocess ends: create_subprocess_exec raises, the exit
\* status is not 0, no output file is found, or the file holds these lines
Runs ==
    {[how |-> h, lines |-> <<>>] : h \in {"exec_error", "failed", "no_file"}}
    \cup {[how |-> "file", lines |-> ls] : ls \in Outputs}

NoArgs == [analysis_id |-> NoId, search_term |-> "", artifact_type |-> "",
           date_range |-> Scalar(Null), path |-> ""]

\* the arguments of an ingestion call: file_path or profile_path
IngestionArgs(path) == [NoArgs EXCEPT !.path = path]

\* a handle_call_tool without the except clause: the exception goes on to the caller
Propagating(res) == res

\* lines 161-176: what handle_call_tool returns for the outcome of the
\* handler: an exception ("raise") becomes the text "Error: ..."
HandleCallTool(res) == IF res.kind = "raise" THEN Result("error", NoId) ELSE res

\* what a tool call returned: the tool, its arguments, the outcome of the
\* handler (res), what handle_call_tool made of it (out), and for an ingestion
\* call its invocation number and the size of the store when it resumed
Returned(tool, seq, args, before, res) ==
    [tool |-> tool, seq |-> seq, args |-> args, before |-> before, res |-> res,
     out |-> HandleCallTool(res)]

Init ==
    /\ analysis_results = <<>>
    /\ calls = {}
    /\ invoked = 0
    /\ last = Returned("", 0, NoArgs, 0, Result("", NoId))
    /\ createdBy = <<>>

\* the invocation numbers of the calls that have returned
ReturnedCalls == (1..invoked) \ {c.seq : c \in calls}

\* asyncio.get_event_loop().time(): the loop's clock, read as the number of
\* ingestion calls made so far
LoopTime == invoked

(***************************************************************************)
(* analyze_browser_history and analyze_chrome_profile, each in two steps:  *)
(* up to the await of the subprocess, and from its completion on.          *)
(***************************************************************************)
\* lines 188 and 332: the text for a path that does not exist
PathNotFound(tool) ==
    IF tool = "analyze_browser_history" THEN "file_not_found" ELSE "profile_path_not_found"

\* the coroutine suspended at the await of the subprocess (lines 227-234, 359-366)
Suspended(tool, path, browser_type, output_format, cache_path) ==
    [tool |-> tool, path |-> path,
     browser_type |-> browser_type, output_format |-> output_format,
     cache_path |-> cache_path, seq |-> invoked + 1,
     done_before |-> ReturnedCalls,
     stored_before |-> Len(analysis_results)]

\* an ingestion that starts the subprocess without looking whether the path exists
StartWithoutPathCheck(tool, path, browser_type, output_format, cache_path, tool_present) ==
    /\ Cardinality(calls) < MaxCalls
    /\ invoked < MaxInvocations
    /\ invoked' = invoked + 1
    /\ UNCHANGED <<analysis_results, createdBy>>
    /\ IF ~tool_present
       THEN /\ last' = Returned(tool, invoked + 1, IngestionArgs(path), Len(analysis_results),
                                Result("tool_not_found", NoId))
            /\ UNCHANGED calls
       ELSE /\ calls' = calls \cup
                           {Suspended(tool, path, browser_type, output_format, cache_path)}
            /\ UNCHANGED last

\* lines 183-232 (history) and 327-364 (profile): the checks before the subprocess
StartIngestion(tool, path, browser_type, output_format, cache_path, tool_present) ==
    /\ Cardinality(calls) < MaxCalls
    /\ invoked < MaxInvocations
    /\ invoked' = invoked + 1
    /\ UNCHANGED <<analysis_results, createdBy>>
    /\ IF path \notin ExistingPaths
       THEN /\ last' = Returned(tool, invoked + 1, IngestionArgs(path), Len(analysis_results),
                                Result(PathNotFound(tool), NoId))
            /\ UNCHANGED calls
       ELSE IF ~tool_present
       THEN /\ last' = Returned(tool, invoked + 1, IngestionArgs(path), Len(analysis_results),
                                Result("tool_not_found", NoId))
            /\ UNCHANGED calls
       ELSE /\ calls' = calls \cup
                           {Suspended(tool, path, browser_type, output_format, cache_path)}
            /\ UNCHANGED last

AnalyzeBrowserHistoryCall ==
    \E path \in HistoryPaths, browser_type \in BrowserTypes, output_format \in OutputFormats,
       tool_present \in BOOLEAN :
        StartIngestion("analyze_browser_history", path, browser_type, output_format,
                       "", tool_present)

AnalyzeChromeProfileCall ==
    \E path \in ProfilePaths, browser_type \in BrowserTypes, tool_present \in BOOLEAN :
        StartIngestion("analyze_chrome_profile", path, browser_type, "jsonl",
                       "", tool_present)

\* lines 261-281 (300-311, 389-411): store the items, then build the summary.
\* The store is written before create_analysis_summary runs; when the summary
\* raises, the except clause at line 319 (415) returns the error text.
IngestionResult(analysis_id, summary) ==
    IF summary.k = "raise" THEN Result("error_during_analysis", NoId)
    ELSE [Result("success", analysis_id) EXCEPT !.summary = <<summary>>]

StoreAs(call, analysis_id, source_key, items, summary) ==
    /\ analysis_results' =
           StorePut(analysis_results, analysis_id,
                    Entry(source_key, call.path, call.browser_type, call.cache_path,
                          items, LoopTime))
    /\ createdBy' = Append(createdBy, [seq |-> call.seq, done_before |-> call.done_before,
                                       id |-> analysis_id, succeeded |-> summary.k = "ok"])
    /\ last' = Returned(call.tool, call.seq, IngestionArgs(call.path), Len(analysis_results),
                        IngestionResult(analysis_id, summary))

\* an ingestion that numbers its session when it is called, before the await
StoreNumberedAtCall(call, kind, source_key, items) ==
    StoreAs(call, AnalysisId(kind, call.stored_before + 1), source_key, items,
            CreateAnalysisSummary(items))

StoreAndSummarize(call, kind, source_key, items) ==
    StoreAs(call, AnalysisId(kind, NextAnalysisNumber(analysis_results)), source_key, items,
            CreateAnalysisSummary(items))

Return(c, kind) ==
    /\ last' = Returned(c.tool, c.seq, IngestionArgs(c.path), Len(analysis_results),
                        Result(kind, NoId))
    /\ UNCHANGED <<analysis_results, createdBy>>

\* lines 234-320: analyze_browser_history after the subprocess has ended
AnalyzeBrowserHistoryResume(c) ==
    /\ c \in calls
    /\ c.tool = "analyze_browser_history"
    /\ calls' = calls \ {c}
    /\ UNCHANGED invoked
    /\ \E run \in Runs :
          CASE run.how = "exec_error" -> Return(c, "error_during_analysis")
            [] run.how = "failed"     -> Return(c, "analysis_failed")
            [] run.how = "no_file"    ->
                  IF c.output_format = "jsonl"
                  THEN Return(c, "no_output_file")
                  ELSE Return(c, "files_created")
            [] OTHER -> StoreAndSummarize(c, "history", "source_file", ReadJsonl(run.lines))

\* lines 366-416: analyze_chrome_profile after the subprocess has ended
AnalyzeChromeProfileResume(c) ==
    /\ c \in calls
    /\ c.tool = "analyze_chrome_profile"
    /\ calls' = calls \ {c}
    /\ UNCHANGED invoked
    /\ \E run \in Runs :
          CASE run.how = "exec_error" -> Return(c, "error_during_analysis")
            [] run.how = "failed"     -> Return(c, "analysis_failed")
            [] run.how = "no_file"    -> Return(c, "no_output_file")
            [] OTHER -> StoreAndSummarize(c, "profile", "source_profile", ReadJsonl(run.lines))

(***************************************************************************)
(* The tools that read the store.                                          *)
(***************************************************************************)
\* get_analysis_summary(arguments), lines 530-551
SummaryResult(analysis_id, analysis_data, summary) ==
    IF summary.k = "raise" THEN Result("raise", NoId)
    ELSE [Result("summary", analysis_id) EXCEPT
             !.summary = <<summary>>,
             !.listing = <<[id |-> analysis_id, source |-> analysis_data.source,
                            browser |-> analysis_data.browser_type]>>]

GetAnalysisSummary(store, analysis_id) ==
    IF analysis_id \notin StoreKeys(store) THEN Result("not_found", analysis_id)
    ELSE SummaryResult(analysis_id, StoreGet(store, analysis_id),
                       CreateAnalysisSummary(StoreGet(store, analysis_id).results))

\* a listing that starts with the newest session
ListNewestFirst(store) ==
    IF Len(store) = 0 THEN Result("none_stored", NoId)
    ELSE [Result("listing", NoId) EXCEPT
             !.listing = [i \in 1..Len(store) |->
                             [id |-> store[Len(store) + 1 - i].id,
                              source |-> store[Len(store) + 1 - i].data.source,
                              browser |-> store[Len(store) + 1 - i].data.browser_type]]]

\* list_analyses(arguments), lines 554-565
ListAnalyses(store) ==
    IF Len(store) = 0 THEN Result("none_stored", NoId)
    ELSE [Result("listing", NoId) EXCEPT
             !.listing = [i \in 1..Len(store) |->
                             [id |-> store[i].id, source |-> store[i].data.source,
                              browser |-> store[i].data.browser_type]]]

SearchArgs(analysis_id, search_term, artifact_type, date_range) ==
    [analysis_id |-> analysis_id, search_term |-> search_term,
     artifact_type |-> artifact_type, date_range |-> date_range, path |-> ""]

DateRange(start_date, end_date) ==
    Dict(<< <<"start_date", Str(start_date)>>, <<"end_date", Str(end_date)>> >>)

\* the term-frequency key of the ranking
LessFrequent(term, a, b) ==
    Count(Lower(JsonDumps(a)), Lower(term)) < Count(Lower(JsonDumps(b)), Lower(term))

RankedByTerm(results, term) ==
    SortDesc(results, [i \in 1..Len(results) |-> [j \in 1..Len(results) |->
                          LessFrequent(term, results[i], results[j])]])

RankedInPlace(store, analysis_id, term) ==
    [i \in 1..Len(store) |->
        IF store[i].id = analysis_id
        THEN [store[i] EXCEPT !.data.results = RankedByTerm(@, term)]
        ELSE store[i]]

\* a search that sorts the stored list instead of the list of matches
SearchSortingStored(args) ==
    /\ last' = Returned("search_analysis_results", 0, args, Len(analysis_results),
                        SearchAnalysisResults(analysis_results, args))
    /\ analysis_results' = RankedInPlace(analysis_results, args.analysis_id, args.search_term)
    /\ UNCHANGED <<calls, invoked, createdBy>>

\* a call of search_analysis_results
Search(args) ==
    /\ last' = Returned("search_analysis_results", 0, args, Len(analysis_results),
                        SearchAnalysisResults(analysis_results, args))
    /\ UNCHANGED <<analysis_results, calls, invoked, createdBy>>

\* a call of get_analysis_summary
Summary(analysis_id) ==
    /\ last' = Returned("get_analysis_summary", 0, [NoArgs EXCEPT !.analysis_id = analysis_id],
                        Len(analysis_results), GetAnalysisSummary(analysis_results, analysis_id))
    /\ UNCHANGED <<analysis_results, calls, invoked, createdBy>>

\* a call of list_analyses
ListCall ==
    /\ last' = Returned("list_analyses", 0, NoArgs, Len(analysis_results),
                        ListAnalyses(analysis_results))
    /\ UNCHANGED <<analysis_results, calls, invoked, createdBy>>

\* a name handle_call_tool does not know (lines 172-173: ValueError), and the
\* ingestion tools called with an arguments mapping that lacks the path
\* (lines 183 and 327: KeyError)
RejectedNames == {"no_such_tool", "analyze_browser_history", "analyze_chrome_profile"}

\* a call that raises before any handler has done anything
RejectedCall ==
    \E name \in RejectedNames :
        /\ last' = Returned(name, 0, NoArgs, Len(analysis_results), Result("raise", NoId))
        /\ UNCHANGED <<analysis_results, calls, invoked, createdBy>>

\* the ids callers ask for: ids the store hands out, and ids it never does
AskedIds == {AnalysisId("history", 1), AnalysisId("profile", 2), AnalysisId("missing-id", 0)}

AskedSearches ==
    {SearchArgs(id, term, "", range) :
        id \in AskedIds, term \in {"COM"},
        range \in {Scalar(Null), DateRange("2021-01-01", "01/02/2021")}}

SearchCall == \E args \in AskedSearches : Search(args)

SummaryCall == \E id \in AskedIds : Summary(id)

Next ==
    \/ AnalyzeBrowserHistoryCall
    \/ \E c \in calls : AnalyzeBrowserHistoryResume(c)
    \/ AnalyzeChromeProfileCall
    \/ \E c \in calls : AnalyzeChromeProfileResume(c)
    \/ SearchCall
    \/ SummaryCall
    \/ ListCall
    \/ RejectedCall

Spec == Init /\ [][Next]_vars

(***************************************************************************)
(* Searches over one stored session: the store holds the session that one  *)
(* ingestion call left, and one query tool is called on it, with every     *)
(* combination of the arguments below.                                     *)
(***************************************************************************)
Plain    == Dict(<< <<"url", Str("http://a.com")>>, <<"visit_count", Small(5)>> >>)
Visit    == Dict(<< <<"url", Str("http://b.com")>>, <<"title", Str("B.com")>>,
                    <<"type", Str("URL")>>, <<"timestamp", Small(1609459200)>> >>)
Download == Dict(<< <<"type", Str("Download")>>, <<"target_path", Str("/home/u/x.exe")>>,
                    <<"start_time", Str("2021-01-02T23:30:00-05:00")>> >>)
Undated  == Dict(<< <<"category", Str("unknown-source")>>, <<"timestamp", Str("n/a")>> >>)
Endless  == Dict(<< <<"url", Str("http://c.com")>>, <<"timestamp", Infinity>> >>)

\* a list, a number beyond year 9999 and a text that is no date
Odd      == Dict(<< <<"url", Str("http://e.com")>>, <<"timestamp", List>>,
                    <<"visit_time", Num(300, 0, 0)>>, <<"start_time", Str("n/a")>> >>)
Busy     == Dict(<< <<"url", Str("http://b.com")>>, <<"visit_count", Small(9)>> >>)
Counted  == Dict(<< <<"title", Str("t")>>, <<"visit_count", Small(7)>> >>)
Fetched  == Dict(<< <<"category", Str("file_download")>>, <<"start_time", Str("2021-01-05")>> >>)
Saved    == Dict(<< <<"target_path", Str("/home/u/docs/y.pdf")>>,
                    <<"start_time", Str("2021-01-03T08:00:00")>> >>)
Later    == Dict(<< <<"url", Str("http://d.com")>>, <<"visit_count", Small(5)>> >>)
\* 13288464000000000: microseconds since 1601-01-01, 2022-02-04T16:00:00Z
WebKit   == Dict(<< <<"title", Str("t")>>, <<"visit_time", Num(0, 13288464, 0)>> >>)
\* 132884640000000000: the same instant in 100 ns ticks since 1601-01-01
Filetime == Dict(<< <<"title", Str("t")>>, <<"last_visit_time", Num(0, 132884640, 0)>> >>)

\* a record that has this one field
Only(key, value) == Dict(<< <<key, Str(value)>> >>)

\* eleven categories: "url" and "late" twice, the others once; one record
\* names its category in the second field tried, one in no field
Categorized ==
    <<JsonLine(Only("artifact", "cookie")), JsonLine(Only("type", "url")),
      JsonLine(Only("category", "login")), JsonLine(Only("title", "t")),
      JsonLine(Only("type", "c5")), JsonLine(Only("type", "c6")),
      JsonLine(Dict(<< <<"artifact", Str("")>>, <<"type", Str("url")>> >>)),
      JsonLine(Only("type", "c7")), JsonLine(Only("type", "c8")),
      JsonLine(Only("type", "c9")), JsonLine(Only("type", "c10")),
      JsonLine(Only("type", "late")), JsonLine(Only("type", "c11")),
      JsonLine(Only("artifact", "late"))>>

\* a text that is no date in the second field tried, seconds in the third
Fallback == Dict(<< <<"url", Str("http://f.com")>>, <<"timestamp", Str("n/a")>>,
                    <<"visit_time", Small(1609459200)>> >>)

\* numbers at the thresholds of the unit reduction and of the epoch correction
Stamps ==
    << Small(1609459200),        \* 1609459200
       Num(0, 10, 0),            \* 1e10
       Num(0, 10, 1),            \* 1e10 + 1
       Num(0, 1000, 0),          \* 1e12
       Num(0, 1000, 1),          \* 1e12 + 1
       Num(0, 10^6, 0),          \* 1e15
       Num(0, 10^6, 1),          \* 1e15 + 1
       Num(11, 644473600, 0),    \* 11644473600e9
       Num(11, 644473700, 0),    \* 11644473700e9
       Num(13, 288464000, 0) >>  \* 13288464000e9

\* a record whose only timestamp is the k-th of these numbers
Stamped(k) == Dict(<< <<"title", Str("t")>>, <<"timestamp", Stamps[k]>> >>)

AllStamped == [k \in 1..Len(Stamps) |-> JsonLine(Stamped(k))]

\* more records than a result text shows; the last one holds the term twice
Crowd   == DisplayLimit + 2
Crowded == [i \in 1..Crowd |->
               JsonLine(IF i = Crowd THEN Visit ELSE IF i % 2 = 0 THEN Plain ELSE Later)]

\* what the subprocess can leave in the output file
QueryOutputs ==
    { Categorized, Crowded, AllStamped, <<JsonLine(Fallback), JsonLine(Visit)>>, <<JsonLine(Plain), JsonLine(Visit), JsonLine(Download)>>,
      <<JsonLine(Plain), JsonLine(Visit), JsonLine(Later)>>,
      <<JsonLine(WebKit), JsonLine(Filetime), JsonLine(Visit)>>,
      <<JsonLine(Visit), BlankLine, JsonLine(Undated), BadLine, JsonLine(Plain)>>,
      <<JsonLine(Scalar(Small(5))), JsonLine(Visit)>>,
      <<JsonLine(Visit), JsonLine(Endless)>>,
      <<JsonLine(Odd), JsonLine(Visit)>>,
      <<JsonLine(Visit), JsonLine(UrlText)>>,
      <<JsonLine(Download), JsonLine(Fetched), JsonLine(Saved)>>,
      <<JsonLine(Plain), JsonLine(Busy), JsonLine(Counted)>>,
      <<BlankLine, BadLine>> }

QueryKinds == {[tool |-> "analyze_browser_history", kind |-> "history", key |-> "source_file",
                path |-> "/evidence/Default/History"],
               [tool |-> "analyze_chrome_profile", kind |-> "profile", key |-> "source_profile",
                path |-> "/evidence/Default"]}

\* the state one ingestion call leaves behind when it stores these lines
InitQuery ==
    \E lines \in QueryOutputs, q \in QueryKinds :
        /\ analysis_results =
              StorePut(<<>>, AnalysisId(q.kind, NextAnalysisNumber(<<>>)),
                       Entry(q.key, q.path, "Chrome", "", ReadJsonl(lines), 1))
        /\ createdBy = <<[seq |-> 1, done_before |-> {},
                          id |-> AnalysisId(q.kind, NextAnalysisNumber(<<>>)),
                          succeeded |-> CreateAnalysisSummary(ReadJsonl(lines)).k = "ok"]>>
        /\ calls = {}
        /\ invoked = 1
        /\ last = Returned("", 0, NoArgs, 0, Result("", NoId))

OneBound(key, date) == Dict(<< <<key, Str(date)>> >>)

QueryRanges ==
    { Scalar(Null),
      DateRange("2021-01-01", "2021-01-01"),
      DateRange("2022-01-01", "2022-12-31"),
      DateRange("2021-01-02", ""),
      DateRange("", ""),
      OneBound("start_date", "2021-01-03"),
      OneBound("end_date", "2021-01-03"),
      OneBound("start_date", "2099-01-01"),
      OneBound("start_date", "2021-02-30"),
      DateRange("2021-01-01", "01/02/2021") }

QueryIds == {AnalysisId("history", 1), AnalysisId("profile", 1), AnalysisId("missing-id", 0)}

QuerySearches ==
    {SearchArgs(id, term, artifact_type, range) :
        id \in QueryIds, term \in {"", "COM"},
        artifact_type \in {"", "unknown", "url"}, range \in QueryRanges}

\* no tool call has returned yet
NoneReturned == last.tool = ""

QuerySearchCall == NoneReturned /\ \E args \in QuerySearches : Search(args)

QuerySummaryCall == NoneReturned /\ \E id \in QueryIds : Summary(id)

QueryListCall == NoneReturned /\ ListCall

\* one query on the stored session
NextQuery ==
    \/ QuerySearchCall
    \/ QuerySummaryCall
    \/ QueryListCall

SpecQuery == InitQuery /\ [][NextQuery]_vars

(***************************************************************************)
(* What the claims speak about.                                            *)
(***************************************************************************)
IngestionTools == {"analyze_browser_history", "analyze_chrome_profile"}
QueryTools     == {"search_analysis_results", "get_analysis_summary", "list_analyses"}

\* the last call that returned was a search on a session the store holds
SearchedStored ==
    /\ last.tool = "search_analysis_results"
    /\ last.args.analysis_id \in StoreKeys(analysis_results)

\* the records of the session the last call asked for
AskedRecords == StoreGet(analysis_results, last.args.analysis_id).results

\* the positions, in the stored list, of the records the last search matched
MatchedPositions == {last.res.matches[i].pos : i \in 1..Len(last.res.matches)}

\* a step in which a query tool returns
QueryStep == last'.tool \in QueryTools /\ UNCHANGED <<calls, invoked>>

\* a step in which search or summary is called with an id the store does not hold
MissingIdStep ==
    /\ QueryStep
    /\ last'.tool \in {"search_analysis_results", "get_analysis_summary"}
    /\ last'.args.analysis_id \notin StoreKeys(analysis_results)

Overlapping(i, j) ==
    /\ createdBy[i].seq \notin createdBy[j].done_before
    /\ createdBy[j].seq \notin createdBy[i].done_before

\* C2: under every interleaving of ingestion calls, every store write gets an
\* id that no other store write got, and no write replaces an entry: the
\* store holds one entry per write, in the order of the writes.
C2_EveryWriteGetsItsOwnId ==
    /\ \A i, j \in 1..Len(createdBy) : i # j => createdBy[i].id # createdBy[j].id
    /\ Len(analysis_results) = Len(createdBy)
    /\ \A i \in 1..Len(createdBy) : analysis_results[i].id = createdBy[i].id

\* C2 happens: two calls that were in flight together have both stored a session
C2_Witness ==
    \E i, j \in 1..Len(createdBy) : i < j /\ Overlapping(i, j)

\* C3 (as claimed): an ingestion call that returns success has added exactly
\* one session, the one whose id it returns, and an ingestion call that
\* returns an error has added none, also when the failure comes after the
\* records were read.
C3_ErrorLeavesNoSession ==
    last.tool \in IngestionTools =>
        IF last.res.kind = "success"
        THEN /\ Len(analysis_results) = last.before + 1
             /\ last.res.id \in StoreKeys(analysis_results)
        ELSE Len(analysis_results) = last.before

\* C4: the store only grows: no step removes or changes an entry, an id that
\* an ingestion returned is a key of the store, and search or summary on an
\* id the store holds never reports 'not found'.
C4_StoreIsAppendOnly ==
    [][/\ Len(analysis_results') >= Len(analysis_results)
       /\ \A i \in 1..Len(analysis_results) : analysis_results'[i] = analysis_results[i]
       /\ (last'.tool \in IngestionTools /\ last'.res.kind = "success")
             => last'.res.id \in StoreKeys(analysis_results')
       /\ (/\ QueryStep
           /\ last'.tool \in {"search_analysis_results", "get_analysis_summary"}
           /\ last'.args.analysis_id \in StoreKeys(analysis_results))
             => last'.res.kind # "not_found"]_vars

\* C4 happens: after a second session was stored, a search on the first
\* session's id has found it
C4_Witness ==
    /\ Len(analysis_results) >= 2
    /\ last.tool = "search_analysis_results"
    /\ last.res.kind = "found"
    /\ last.args.analysis_id = analysis_results[1].id
    /\ last.before >= 2

\* C5: search_analysis_results, get_analysis_summary and list_analyses leave
\* the store as it is, whether the id is present or not: no entry is added
\* or removed and every stored record list keeps its content and order.
C5_QueriesLeaveStoreUnchanged ==
    [][QueryStep => analysis_results' = analysis_results]_vars

\* C5 happens: a search has returned matches ranked in another order than
\* their records have in the stored list
C5_Witness ==
    /\ last.tool = "search_analysis_results"
    /\ last.res.kind = "found"
    /\ \E i, j \in 1..Len(last.res.matches) :
          i < j /\ last.res.matches[i].pos > last.res.matches[j].pos

\* the place of the session with this id in the store
PositionOf(id) == CHOOSE p \in 1..Len(analysis_results) : analysis_results[p].id = id

\* C6 (as claimed): of two ingestion calls that both succeed, the one that
\* was invoked first has its session stored first (earlier position, smaller
\* id counter), also when both are in flight at the same time.
C6_StoredInCallOrder ==
    \A i, j \in 1..Len(createdBy) :
        (/\ createdBy[i].succeeded
         /\ createdBy[j].succeeded
         /\ createdBy[i].seq < createdBy[j].seq)
            => /\ PositionOf(createdBy[i].id) < PositionOf(createdBy[j].id)
               /\ createdBy[i].id.n < createdBy[j].id.n

\* C6 (amended): sessions are stored in the order in which the ingestion
\* calls reach the store step after their subprocess has ended: position in
\* the store and id counter follow that order, and of two calls of which the
\* first had returned before the second was invoked, the first is stored first.
C6_StoredInCompletionOrder ==
    /\ \A i, j \in 1..Len(createdBy) :
          i < j => /\ PositionOf(createdBy[i].id) < PositionOf(createdBy[j].id)
                   /\ createdBy[i].id.n < createdBy[j].id.n
    /\ \A i, j \in 1..Len(createdBy) :
          createdBy[i].seq \in createdBy[j].done_before
             => PositionOf(createdBy[i].id) < PositionOf(createdBy[j].id)

\* C6 happens: two calls have both succeeded, the first having returned
\* before the second was invoked
C6_Witness ==
    \E i, j \in 1..Len(createdBy) :
        /\ createdBy[i].succeeded
        /\ createdBy[j].succeeded
        /\ createdBy[i].seq \in createdBy[j].done_before

Boundaries == {"start_date", "end_date"}

\* the range supplies this boundary, and its value is no calendar date
Unparsable(date_range, key) ==
    /\ date_range.isdict
    /\ Has(date_range, key)
    /\ Get(date_range, key).t = "str"
    /\ ~FromIsoformat(Get(date_range, key).s).ok

\* C7 (as claimed): on a stored session, a search whose date_range supplies a
\* start_date or end_date that is no calendar date returns the invalid-date
\* result and no matches, for every such value, and valid boundaries never do.
C7_UnparsableBoundaryIsRejected ==
    SearchedStored =>
        /\ (\E key \in Boundaries : Unparsable(last.args.date_range, key))
              <=> last.res.kind = "invalid_date"
        /\ last.res.kind = "invalid_date" => last.res.matches = <<>>

\* the record has a normalized timestamp whose UTC date lies within the bounds
WithinRange(item, ts, range) ==
    /\ item.isdict
    /\ ts.k = "dt"
    /\ range.has_start => range.start <= ts.day
    /\ range.has_end => ts.day <= range.end

DatedWithin(item, range) ==
    item.isdict /\ WithinRange(item, ParseHindsightTimestamp(item), range)

Undatable(item) == item.isdict /\ ParseHindsightTimestamp(item).k = "none"

\* C8 for one search, range being the bounds its date_range supplies
KeepsByDate(records, range) ==
    IF range.has_start \/ range.has_end
    THEN /\ last.res.kind \in {"found", "no_matches"}
         /\ MatchedPositions = {i \in 1..Len(records) : DatedWithin(records[i], range)}
         /\ MatchedPositions = {} => last.res.kind = "no_matches"
    ELSE \A i \in 1..Len(records) : Undatable(records[i]) => i \in MatchedPositions

\* C8 (as claimed): with at least one bound, search keeps exactly the records
\* whose normalized timestamp exists and whose UTC date lies within the
\* inclusive bounds; with no bound, records without a timestamp are kept; a
\* range that excludes every record gives 'no matches', not an error.
C8_DateRangeKeepsExactlyDated ==
    (/\ SearchedStored
     /\ last.args.search_term = ""
     /\ last.args.artifact_type = ""
     /\ ParseDateRange(last.args.date_range).k = "ok")
        => KeepsByDate(AskedRecords, ParseDateRange(last.args.date_range))

\* the derived category of the record contains the filter, case-insensitively
CategoryContains(item, filter) ==
    /\ item.isdict
    /\ ReportedCategory(item).t = "str"
    /\ Contains(Lower(ReportedCategory(item).s), Lower(filter))

\* C9 (as claimed): with a category filter X, search keeps a record iff
\* lowercase(X) occurs in the lowercase of the category the match reports and
\* the summary tallies (default "unknown"), so the filter "unknown" keeps the
\* records that carry no category field.
C9_FilterUsesReportedCategory ==
    (/\ SearchedStored
     /\ last.args.search_term = ""
     /\ last.args.artifact_type # ""
     /\ last.args.date_range = Scalar(Null))
        => MatchedPositions =
              {i \in 1..Len(AskedRecords) :
                  CategoryContains(AskedRecords[i], last.args.artifact_type)}

\* C10 (as claimed): a search with empty term, no category filter and no date
\* range returns as many matches as the session has stored records, each
\* with relevance 1.
C10_EmptySearchMatchesEveryRecord ==
    (/\ SearchedStored
     /\ last.args.search_term = ""
     /\ last.args.artifact_type = ""
     /\ last.args.date_range = Scalar(Null))
        => /\ Len(last.res.matches) = Len(AskedRecords)
           /\ \A i \in 1..Len(last.res.matches) : last.res.matches[i].relevance = 1

\* the last search returned a list of matches (possibly the empty one)
SearchReturnedList == SearchedStored /\ last.res.kind \in {"found", "no_matches"}

\* the serialized text of the record holds the term, case-insensitively
TermOccurs(item, term) == Contains(Lower(JsonDumps(item)), Lower(term))

\* the record passes the category filter of the search (no filter passes all)
PassesCategory(item, filter) ==
    \/ filter = ""
    \/ /\ FilterCategory(item).t = "str"
       /\ Contains(Lower(FilterCategory(item).s), Lower(filter))

\* the record passes the date range of the search (no bound passes all)
PassesDate(item, range) ==
    ~(range.has_start \/ range.has_end) \/ DatedWithin(item, range)

\* the records a search with these arguments has to keep
ExpectedPositions(records, args) ==
    {i \in 1..Len(records) :
        /\ records[i].isdict
        /\ TermOccurs(records[i], args.search_term)
        /\ PassesCategory(records[i], args.artifact_type)
        /\ PassesDate(records[i], ParseDateRange(args.date_range))}

\* the relevance of every match is the number of (non-overlapping)
\* occurrences of the term in the record's serialized text, and at least 1
RelevanceIsTermCount(records, matches, term) ==
    \A k \in 1..Len(matches) :
        /\ matches[k].relevance = Count(Lower(JsonDumps(records[matches[k].pos])), Lower(term))
        /\ matches[k].relevance >= 1

NonIncreasing(matches) ==
    \A k \in 1..(Len(matches) - 1) : matches[k].relevance >= matches[k + 1].relevance

\* C11: with a non-empty term, the list a search returns holds exactly the
\* records (objects with a field set) whose lowercased serialization contains
\* the lowercased term and that also pass the date and the category filter,
\* each once; the relevance of a match is the number of occurrences of the
\* term in that serialization, hence at least 1; the list is in
\* non-increasing order of relevance.
C11_TermFilterAndRelevance ==
    (SearchReturnedList /\ last.args.search_term # "")
        => /\ MatchedPositions = ExpectedPositions(AskedRecords, last.args)
           /\ Len(last.res.matches) = Cardinality(MatchedPositions)
           /\ last.res.kind = "no_matches" <=> MatchedPositions = {}
           /\ RelevanceIsTermCount(AskedRecords, last.res.matches, last.args.search_term)
           /\ NonIncreasing(last.res.matches)

\* C11 happens: a search for a term typed in upper case has returned two
\* matches of different relevance, the more relevant one first although it is
\* stored later, and has left out a record that does not hold the term
C11_Witness ==
    /\ SearchReturnedList
    /\ last.args.search_term = "COM"
    /\ \E i, j \in 1..Len(last.res.matches) :
          /\ i < j
          /\ last.res.matches[i].relevance > last.res.matches[j].relevance
          /\ last.res.matches[i].pos > last.res.matches[j].pos
    /\ \E i \in 1..Len(AskedRecords) :
          AskedRecords[i].isdict /\ i \notin MatchedPositions

\* C12: ranking is stable: two matches of equal relevance are returned in
\* the order their records have in the stored session, although the sort is
\* descending.
C12_RankingIsStable ==
    SearchReturnedList =>
        \A i, j \in 1..Len(last.res.matches) :
            (i < j /\ last.res.matches[i].relevance = last.res.matches[j].relevance)
                => last.res.matches[i].pos < last.res.matches[j].pos

\* C12 happens: the sort has moved a more relevant match in front of two
\* matches of equal relevance, one stored before it and one after it
C12_Witness ==
    /\ SearchReturnedList
    /\ \E i, j, k \in 1..Len(last.res.matches) :
          /\ i < j /\ j < k
          /\ last.res.matches[j].relevance = last.res.matches[k].relevance
          /\ last.res.matches[i].relevance > last.res.matches[j].relevance
          /\ last.res.matches[j].pos < last.res.matches[i].pos
          /\ last.res.matches[i].pos < last.res.matches[k].pos

\* days from 1601-01-01 to 1970-01-01
FiletimeEpochDay == 0 - DaysFromCivil(1601, 1, 1)

\* a number of FILETIME/WebKit scale: 10^16 or more (below 10^18)
FiletimeScale(v) == v.t = "num" /\ v.top = 0 /\ v.hi >= 10^7

\* the record's only timestamp field is this one, with a value of that scale
StampedBy(item, key) ==
    /\ Has(item, key)
    /\ FiletimeScale(Get(item, key))
    /\ \A i \in 1..Len(TimestampKeys) : TimestampKeys[i] # key => ~Has(item, TimestampKeys[i])

FiletimeStamped(item) ==
    item.isdict /\ \E i \in 1..Len(TimestampKeys) : StampedBy(item, TimestampKeys[i])

FiletimeValue(item) ==
    Get(item, TimestampKeys[CHOOSE i \in 1..Len(TimestampKeys) : StampedBy(item, TimestampKeys[i])])

\* the whole days in hi * 10^9 + lo units, persec units making a second and
\* perlimb = 10^9 / persec seconds a limb (perlimb * block = 86400 * days)
WholeDays(hi, lo, persec, perlimb, block, days) ==
    (hi \div block) * days + ((hi % block) * perlimb + lo \div persec) \div 86400

\* the UTC day (counted from 1970-01-01) a FILETIME-scale value denotes:
\* microseconds since 1601 below 10^17, 100 ns ticks since 1601 from 10^17 on
FiletimeDay(v) ==
    (IF v.hi < 10^8 THEN WholeDays(v.hi, v.lo, 10^6, 1000, 432, 5)
     ELSE WholeDays(v.hi, v.lo, 10^7, 100, 864, 1)) - FiletimeEpochDay

\* the calendar year of a day number
YearOf(day) ==
    CHOOSE y \in 1969..2200 : DaysFromCivil(y, 1, 1) <= day /\ day < DaysFromCivil(y + 1, 1, 1)

\* the normalized timestamp ts of a value lies in the calendar year of day
InYearOf(ts, day) == ts.k = "dt" /\ YearOf(ts.day) = YearOf(day)

DayWithin(day, range) ==
    /\ range.has_start => range.start <= day
    /\ range.has_end => day <= range.end

\* the last search had a date range with a bound and no other filter
SearchedByDateOnly ==
    /\ SearchedStored
    /\ last.args.search_term = ""
    /\ last.args.artifact_type = ""
    /\ ParseDateRange(last.args.date_range).k = "ok"
    /\ ParseDateRange(last.args.date_range) # NoRange

\* C13 (as claimed): a record whose timestamp is a FILETIME/WebKit-scale
\* number (13288464000000000 microseconds since 1601, or a value in the 1e17
\* range) is normalized to an instant in the calendar year the value denotes
\* (2022 for the example), so that a search bounded by dates keeps it exactly
\* when that day lies within the bounds.
C13_FiletimeFallsInItsYear ==
    SearchedStored =>
        \A i \in 1..Len(AskedRecords) :
            FiletimeStamped(AskedRecords[i]) =>
                /\ InYearOf(ParseHindsightTimestamp(AskedRecords[i]),
                            FiletimeDay(FiletimeValue(AskedRecords[i])))
                /\ SearchedByDateOnly =>
                      (i \in MatchedPositions <=>
                          DayWithin(FiletimeDay(FiletimeValue(AskedRecords[i])),
                                    ParseDateRange(last.args.date_range)))

\* the record has a timestamp field that cannot be turned into an instant
Unusable(v) == Truthy(v) /\ TimestampOf(v).k # "dt"

BadlyStamped(item) ==
    item.isdict /\ \E i \in 1..Len(TimestampKeys) : Unusable(Get(item, TimestampKeys[i]))

\* C14 (as claimed): whatever the types and values of a record's timestamp
\* fields (wrong type, unparsable text, out-of-range or non-finite number),
\* normalization yields an instant or None and never raises, so a search
\* with a date range over a session holding such a record completes and
\* returns the matches among the other records.
C14_BadTimestampIsAbsorbed ==
    SearchedStored =>
        /\ \A i \in 1..Len(AskedRecords) :
              AskedRecords[i].isdict =>
                  ParseHindsightTimestamp(AskedRecords[i]).k \in {"dt", "none"}
        /\ (/\ \E i \in 1..Len(AskedRecords) : BadlyStamped(AskedRecords[i])
            /\ ParseDateRange(last.args.date_range).k = "ok"
            /\ ParseDateRange(last.args.date_range) # NoRange)
              => /\ last.res.kind \in {"found", "no_matches"}
                 /\ MatchedPositions = ExpectedPositions(AskedRecords, last.args)

RECURSIVE ObjectsIn(_)
\* the lines of the file that parse as a structured object, in the order of the file
ObjectsIn(lines) ==
    IF Len(lines) = 0 THEN <<>>
    ELSE (IF lines[1].k = "json" /\ lines[1].v.isdict THEN <<lines[1].v>> ELSE <<>>)
         \o ObjectsIn(Tail(lines))

\* C15 (as claimed): every stored session holds exactly the lines of an
\* output file that parse as structured objects, in upstream order: blank
\* and unparsable lines are dropped, every object line is stored, and every
\* stored record is a structured object.
C15_StoredRecordsAreObjectLines ==
    \A s \in 1..Len(analysis_results) :
        /\ \E lines \in Outputs : analysis_results[s].data.results = ObjectsIn(lines)
        /\ \A i \in 1..Len(analysis_results[s].data.results) :
              analysis_results[s].data.results[i].isdict

\* the last call that returned was get_analysis_summary, and it returned a summary
Summarized ==
    /\ last.tool = "get_analysis_summary"
    /\ last.res.kind = "summary"

\* the category lines and the highlights of the summary the last call returned
Listed == last.res.summary[1].buckets

\* the positions of the records of this derived category
OfCategory(records, c) ==
    {i \in 1..Len(records) : records[i].isdict /\ ReportedCategory(records[i]) = c}

CategoriesOf(records) ==
    {ReportedCategory(records[i]) : i \in {j \in 1..Len(records) : records[j].isdict}}

FirstSeen(records, c) ==
    CHOOSE i \in OfCategory(records, c) : \A j \in OfCategory(records, c) : i <= j

\* category c has more records than d, or as many and was encountered first
Outranks(records, c, d) ==
    \/ Cardinality(OfCategory(records, c)) > Cardinality(OfCategory(records, d))
    \/ /\ Cardinality(OfCategory(records, c)) = Cardinality(OfCategory(records, d))
       /\ FirstSeen(records, c) < FirstSeen(records, d)

Smaller(a, b) == IF a < b THEN a ELSE b

\* the listed buckets are the top ones of the records' categories
ListsTopCategories(records, listed, categories) ==
    /\ Len(listed) = Smaller(TopCategories, Cardinality(categories))
    /\ \A k \in 1..Len(listed) :
          /\ listed[k].category \in categories
          /\ listed[k].count = Cardinality(OfCategory(records, listed[k].category))
    /\ \A k, l \in 1..Len(listed) :
          k < l => Outranks(records, listed[k].category, listed[l].category)
    /\ \A c \in categories \ {listed[k].category : k \in 1..Len(listed)} :
          \A k \in 1..Len(listed) : Outranks(records, listed[k].category, c)

\* C16: the summary tallies the records by derived category and lists at
\* most 10 categories, those with the highest counts, in non-increasing order
\* of count, categories of equal count in the order of first encounter.
C16_TopCategoriesByCount ==
    Summarized => ListsTopCategories(AskedRecords, Listed, CategoriesOf(AskedRecords))

\* C16 happens: a summary of records of more than 10 categories lists 10 of
\* them, a category encountered later in front of one encountered earlier
C16_Witness ==
    /\ Summarized
    /\ Cardinality(CategoriesOf(AskedRecords)) > TopCategories
    /\ Len(Listed) = TopCategories
    /\ \E k, l \in 1..Len(Listed) :
          /\ k < l
          /\ FirstSeen(AskedRecords, Listed[k].category)
                > FirstSeen(AskedRecords, Listed[l].category)
    /\ \E k \in 1..(Len(Listed) - 1) : Listed[k].count = Listed[k + 1].count

HasVisitCount(it) == it.isdict /\ Has(it, "visit_count")

\* the URLs of these records as the highlight shows them
ShownUrls(records) == [i \in 1..Len(records) |-> RenderUrl(records[i])]

\* C17 (as claimed): the top-visited highlight lists the (at most) 3 records
\* with the highest visit count among the records that carry a visit-count
\* field, highest first: a record without that field is never listed, and a
\* record with it is a candidate whatever its other fields are.
C17_TopVisitedAmongCounted ==
    Summarized =>
        last.res.summary[1].top_visited =
            ShownUrls(TopUrls(SelectSeq(AskedRecords, HasVisitCount)))

\* the derived category (first non-empty of artifact, type, category) holds
\* "download", or the record has a target_path field
DownloadByCategory(it) ==
    /\ it.isdict
    /\ \/ Contains(Lower(ToStr(FilterCategory(it))), "download")
       \/ Has(it, "target_path")

\* the file names of these records as the highlight shows them
ShownDownloads(records) == [i \in 1..Len(records) |-> RenderDownload(records[i])]

\* C18 (as claimed): the recent-downloads highlight lists the (at most) 3
\* records with the greatest start time, most recent first, among exactly the
\* records whose derived category contains "download" (case-insensitively) or
\* which carry a target_path field, each as the last segment of its path.
C18_RecentDownloadsByCategory ==
    Summarized =>
        last.res.summary[1].recent_downloads =
            ShownDownloads(RecentDownloads(SelectSeq(AskedRecords, DownloadByCategory)))

\* C19 (as claimed): create_analysis_summary returns a summary for every
\* list of records, also when some records lack the visit-count, URL,
\* start-time or target-path field that others carry (as numbers or as
\* text): every ingestion that stored a session returned success, and
\* get_analysis_summary on a stored session returns its summary.
C19_SummaryNeverFails ==
    /\ \A i \in 1..Len(createdBy) : createdBy[i].succeeded
    /\ (/\ last.tool = "get_analysis_summary"
        /\ last.args.analysis_id \in StoreKeys(analysis_results))
          => last.res.kind = "summary"

\* a step in which a tool call returns
CallReturns == last' # last

\* C20: handle_call_tool returns a text result for every tool name and every
\* argument mapping: an unknown tool name and an exception raised inside a
\* handler become the single text 'Error: ...', nothing propagates to the
\* caller, such a call leaves the store as it was, and the call after it is
\* served from the store as any other.
C20_EveryCallReturnsText ==
    [][CallReturns =>
          /\ last'.out.kind # "raise"
          /\ (last'.tool \notin IngestionTools \cup QueryTools \/ last'.res.kind = "raise")
                => /\ last'.out.kind = "error"
                   /\ analysis_results' = analysis_results
          /\ last'.res.kind # "raise" => last'.out = last'.res
          /\ (/\ last.out.kind = "error"
              /\ last'.tool \in {"search_analysis_results", "get_analysis_summary"}
              /\ last'.args.analysis_id \in StoreKeys(analysis_results))
                => last'.res.kind # "not_found"]_vars

\* C20 happens: get_analysis_summary on a stored session has raised inside
\* create_analysis_summary, and the caller got the error text
C20_Witness ==
    /\ last.tool = "get_analysis_summary"
    /\ last.args.analysis_id \in StoreKeys(analysis_results)
    /\ last.res.kind = "raise"
    /\ last.out.kind = "error"

\* a step in which an ingestion tool, called with a path that does not exist, returns
MissingPathStep ==
    /\ CallReturns
    /\ last'.tool \in IngestionTools
    /\ last'.args.path # ""
    /\ last'.args.path \notin ExistingPaths

ListedIds(listing) == {listing[i].id : i \in 1..Len(listing)}

\* the ids search_analysis_results and get_analysis_summary know
KnownIds(store) ==
    {id \in AskedIds \cup StoreKeys(store) :
        /\ SearchAnalysisResults(store, SearchArgs(id, "", "", Scalar(Null))).kind # "not_found"
        /\ GetAnalysisSummary(store, id).kind # "not_found"}

\* the listing has one entry per session created, in creation order
OnePerSession(listing) ==
    /\ Len(listing) = Len(createdBy)
    /\ \A i \in 1..Len(listing) :
          /\ listing[i].id = createdBy[i].id
          /\ listing[i].source = StoreGet(analysis_results, createdBy[i].id).source
          /\ listing[i].browser = StoreGet(analysis_results, createdBy[i].id).browser_type

FullCount == Cardinality(ExpectedPositions(AskedRecords, last.args))

\* the first n of the ranked matches, in rank order
ShowsTop(matches, shown, n) ==
    /\ Len(shown) = n
    /\ \A k \in 1..n : shown[k] = matches[k]

\* C23: the search counts all n matches and only the text truncates: a
\* result with matches reports n, shows the min(n, 20) highest-ranked matches
\* in rank order, and carries the 'n - 20 more' notice iff n > 20
C23_OnlyPresentationTruncates ==
    (SearchedStored /\ last.res.kind = "found") =>
        /\ Len(last.res.matches) = FullCount
        /\ MatchedPositions = ExpectedPositions(AskedRecords, last.args)
        /\ NonIncreasing(last.res.matches)
        /\ ShowsTop(last.res.matches, last.res.shown, Smaller(FullCount, DisplayLimit))
        /\ last.res.more > 0 <=> FullCount > DisplayLimit
        /\ last.res.more > 0 => last.res.more = FullCount - DisplayLimit

\* C23 happens: a search has matched 22 records, shown the 20 first in rank,
\* the record that holds the term twice in front, and announced 2 more
C23_Witness ==
    /\ SearchedStored
    /\ last.res.kind = "found"
    /\ FullCount = Crowd
    /\ Len(last.res.shown) = DisplayLimit
    /\ last.res.shown[1].pos = Crowd
    /\ last.res.more = 2

\* what the loop of lines 466-497 keeps of these records when the search has
\* the same term and date range and no category filter
KeptUnfiltered(records, args) ==
    {i \in 1..Len(records) :
        Outcomes(records, Lower(args.search_term), "",
                 ParseDateRange(args.date_range))[i] = "keep"}

\* the last search had a category filter and its loop ran to the end
FilteredSearch == SearchReturnedList /\ last.args.artifact_type # ""

\* C24: the records a search with a category filter matches are among the
\* records the same search (same session, term and date range) matches
\* without a category filter
C24_CategoryFilterNarrows ==
    FilteredSearch => MatchedPositions \subseteq KeptUnfiltered(AskedRecords, last.args)

\* C24 happens: a search with a category filter, a term and a date range has
\* matched some, not all, of the records the unfiltered search matches
C24_Witness ==
    /\ FilteredSearch
    /\ last.args.search_term # ""
    /\ last.args.date_range # Scalar(Null)
    /\ MatchedPositions # {}
    /\ MatchedPositions # KeptUnfiltered(AskedRecords, last.args)

RECURSIVE SumCounts(_)
\* the counts of these buckets added up
SumCounts(buckets) ==
    IF Len(buckets) = 0 THEN 0 ELSE buckets[1].count + SumCounts(Tail(buckets))

\* C25 (as claimed): the total a summary reports is the number of records
\* summarized, and the per-category counts of the tally, over all categories,
\* add up to that total; when no category is cut, so do the listed counts
C25_CountsSumToTotal ==
    Summarized =>
        /\ last.res.summary[1].total = Len(AskedRecords)
        /\ SumCounts(Tally(AskedRecords, 1, <<>>)) = last.res.summary[1].total
        /\ Len(Tally(AskedRecords, 1, <<>>)) <= TopCategories
              => SumCounts(Listed) = last.res.summary[1].total

\* the same for the sessions whose records are all structured objects
C25_CountsSumToTotalOfObjects ==
    (Summarized /\ \A i \in 1..Len(AskedRecords) : AskedRecords[i].isdict)
        => C25_CountsSumToTotal

\* the candidate fields of the record that are present with a non-empty value
Candidates(item) ==
    {k \in 1..Len(TimestampKeys) :
        Has(item, TimestampKeys[k]) /\ Truthy(Get(item, TimestampKeys[k]))}

\* the instant the value converts to, None if it does not convert
ConvertedOrNone(ts) == IF ts.k = "dt" THEN ts ELSE NoTimestamp

\* the timestamp derived from the first candidate field alone
FirstCandidateOnly(item) ==
    IF Candidates(item) = {} THEN NoTimestamp
    ELSE ConvertedOrNone(TimestampOf(Get(item,
             TimestampKeys[CHOOSE k \in Candidates(item) : \A j \in Candidates(item) : k <= j])))

\* the record has a candidate field after the first one
LaterCandidate(item) == Cardinality(Candidates(item)) > 1

\* C26 (as claimed): the timestamp of a record is derived from the first
\* candidate field (datetime, timestamp, visit_time, start_time,
\* last_visit_time) present with a non-empty value and from no later one: it
\* is None when that value does not convert, and a search bounded by dates
\* keeps the record exactly when the instant of that field is within the bounds
C26_FirstCandidateDecides ==
    SearchedStored =>
        \A i \in 1..Len(AskedRecords) :
            (AskedRecords[i].isdict /\ ParseHindsightTimestamp(AskedRecords[i]).k # "raise") =>
                /\ ParseHindsightTimestamp(AskedRecords[i]) = FirstCandidateOnly(AskedRecords[i])
                /\ (SearchedByDateOnly /\ SearchReturnedList) =>
                      (i \in MatchedPositions <=>
                          WithinRange(AskedRecords[i], FirstCandidateOnly(AskedRecords[i]),
                                      ParseDateRange(last.args.date_range)))

\* the same for the sessions in which no record has a first candidate that
\* does not convert followed by another candidate
C26_FirstCandidateDecidesIfItConverts ==
    (SearchedStored /\ \A i \in 1..Len(AskedRecords) :
                          (AskedRecords[i].isdict /\ LaterCandidate(AskedRecords[i]))
                              => FirstCandidateOnly(AskedRecords[i]).k = "dt")
        => C26_FirstCandidateDecides

\* the instants (day since 1970-01-01, second of the day, UTC) the numbers of
\* Stamps denote under the rule: v > 1e15: v/1e9; else v > 1e12: v/1e6; else
\* v > 1e10: v/1e3; else v; then minus 11644473600 iff above 11644473600
Instants ==
    << [day |-> 18628,  sod |-> 0],      \* 1609459200 s, 2021-01-01 00:00:00
       [day |-> 115740, sod |-> 64000],  \* 10000000000 s, 2286-11-20 17:46:40
       [day |-> 115,    sod |-> 64000],  \* 10000000.001 s, 1970-04-26 17:46:40
       [day |-> 11574,  sod |-> 6400],   \* 1000000000 s, 2001-09-09 01:46:40
       [day |-> 11,     sod |-> 49600],  \* 1000000.000001 s, 1970-01-12 13:46:40
       [day |-> 11574,  sod |-> 6400],   \* 1000000000 s
       [day |-> 11,     sod |-> 49600],  \* 1000000.000000001 s
       [day |-> 134774, sod |-> 0],      \* 11644473600 s, 2339-01-01 00:00:00
       [day |-> 0,      sod |-> 100],    \* 11644473700 - 11644473600 = 100 s
       [day |-> 19027,  sod |-> 57600] >> \* 1643990400 s, 2022-02-04 16:00:00

\* the positions of the stored records stamped with the k-th number
StampedAt(records, k) == {i \in 1..Len(records) : records[i] = Stamped(k)}

\* C27: a numeric timestamp is reduced once, by the largest threshold it
\* exceeds (1e15: /1e9, 1e12: /1e6, 1e10: /1e3, else not at all), and then
\* lowered by 11644473600 iff the reduced value exceeds 11644473600, so a
\* value up to 1e10 (1609459200) is taken as Unix seconds; a search bounded by
\* dates keeps the record exactly when the day of that instant is within the
\* bounds
C27_OneReductionThenEpoch ==
    SearchedStored =>
        \A k \in 1..Len(Stamps) : \A i \in StampedAt(AskedRecords, k) :
            /\ ParseHindsightTimestamp(AskedRecords[i])
                   = TsResult("dt", Instants[k].day, Instants[k].sod)
            /\ SearchedByDateOnly =>
                  /\ SearchReturnedList
                  /\ i \in MatchedPositions
                        <=> DayWithin(Instants[k].day, ParseDateRange(last.args.date_range))

\* C27 happens: a search for the year 2022 over the records stamped with the
\* numbers at the thresholds has kept the nanosecond FILETIME of 2022-02-04
\* alone, 1609459200 being of 2021
C27_Witness ==
    /\ SearchedByDateOnly
    /\ AskedRecords = [k \in 1..Len(Stamps) |-> Stamped(k)]
    /\ MatchedPositions = StampedAt(AskedRecords, Len(Stamps))
    /\ StampedAt(AskedRecords, 1) # {}

\* the derived category: the first non-empty value among the artifact, type
\* and category fields, "unknown" when none is non-empty
DerivedCategory(item) ==
    IF Truthy(Get(item, "artifact")) THEN Get(item, "artifact")
    ELSE IF Truthy(Get(item, "type")) THEN Get(item, "type")
    ELSE IF Truthy(Get(item, "category")) THEN Get(item, "category")
    ELSE Str("unknown")

\* the derived category of the record contains this text, case-insensitively
DerivedContains(item, text) ==
    item.isdict /\ Contains(Lower(ToStr(DerivedCategory(item))), Lower(text))

DownloadByDerived(it) == DerivedContains(it, "download") \/ (it.isdict /\ Has(it, "target_path"))

\* the positions of the records of this derived category
OfDerived(records, c) ==
    {i \in 1..Len(records) : records[i].isdict /\ DerivedCategory(records[i]) = c}

\* the last search had a category filter and no other filter
SearchedByCategoryOnly ==
    /\ SearchReturnedList
    /\ last.args.search_term = ""
    /\ last.args.artifact_type # ""
    /\ last.args.date_range = Scalar(Null)

\* C28 (as claimed): one derived category (first non-empty of artifact,
\* type, category; "unknown" when none) is used throughout: the category
\* filter of search tests it, the matches report it, the summary tallies by
\* it, and the download highlight selects by it
C28_OneDerivedCategory ==
    /\ SearchReturnedList =>
          \A k \in 1..Len(last.res.matches) :
              last.res.matches[k].category = DerivedCategory(last.res.matches[k].item)
    /\ SearchedByCategoryOnly =>
          MatchedPositions =
              {i \in 1..Len(AskedRecords) :
                  DerivedContains(AskedRecords[i], last.args.artifact_type)}
    /\ Summarized =>
          /\ \A k \in 1..Len(Listed) :
                Listed[k].count = Cardinality(OfDerived(AskedRecords, Listed[k].category))
          /\ last.res.summary[1].recent_downloads =
                ShownDownloads(RecentDownloads(SelectSeq(AskedRecords, DownloadByDerived)))

\* the record names "download" in its category field, which alone decides
DownloadInThirdField(it) ==
    /\ it.isdict
    /\ ~Truthy(Get(it, "artifact"))
    /\ ~Truthy(Get(it, "type"))
    /\ Contains(Lower(ToStr(Get(it, "category"))), "download")

\* the same without the filters that occur in "unknown" and without the
\* sessions that name a download in the category field
C28_OneDerivedCategoryElsewhere ==
    (/\ last.args.artifact_type # "" => ~Contains("unknown", Lower(last.args.artifact_type))
     /\ Summarized => \A i \in 1..Len(AskedRecords) : ~DownloadInThirdField(AskedRecords[i]))
        => C28_OneDerivedCategory

\* the kind tag of the ids a tool hands out
KindOf(tool) == IF tool = "analyze_browser_history" THEN "history" ELSE "profile"

\* the suffix of every stored id is the session's position in creation order
NumberedByPosition(store) == \A i \in 1..Len(store) : store[i].id.n = i

\* C29: a step that changes the store is the return of an ingestion tool and
\* appends one session whose id is <kind>_<n>, kind being 'history' for
\* analyze_browser_history and 'profile' for analyze_chrome_profile, and in
\* the store it leaves the suffix n of every session is its 1-based position
\* in creation order (one counter for both kinds), so suffixes strictly
\* increase
C29_IdsNumberTheSessions ==
    [][analysis_results' # analysis_results =>
          /\ last'.tool \in IngestionTools
          /\ Len(analysis_results') = Len(analysis_results) + 1
          /\ SubSeq(analysis_results', 1, Len(analysis_results)) = analysis_results
          /\ analysis_results'[Len(analysis_results')].id
                = AnalysisId(KindOf(last'.tool), Len(analysis_results'))
          /\ createdBy'[Len(createdBy')].id = analysis_results'[Len(analysis_results')].id
          /\ NumberedByPosition(analysis_results')]_vars

\* C29 happens: the store holds profile_1 and history_2
C29_Witness ==
    /\ Len(analysis_results) = 2
    /\ analysis_results[1].id = AnalysisId("profile", 1)
    /\ analysis_results[2].id = AnalysisId("history", 2)

\* every match refers to a record of these records, by position and content,
\* and no position is referred to twice
DrawnFrom(matches, records) ==
    /\ \A k \in 1..Len(matches) :
          /\ matches[k].pos \in 1..Len(records)
          /\ matches[k].item = records[matches[k].pos]
    /\ \A k, l \in 1..Len(matches) : k # l => matches[k].pos # matches[l].pos

\* C30: the matches of a search on a stored session are a reordering of a
\* sub-sequence of that session's records: each match is a record of the
\* searched session, no record position occurs in two matches, and the
\* records of the other sessions of the store do not appear
C30_MatchesComeFromTheSession ==
    SearchedStored =>
        /\ DrawnFrom(last.res.matches, AskedRecords)
        /\ DrawnFrom(last.res.shown, AskedRecords)
        /\ Len(last.res.matches) <= Len(AskedRecords)

\* C30 happens: with two sessions of different records in the store, a search
\* on one of them has matched some of its records, not all, in another order
\* than they are stored
C30_Witness ==
    /\ SearchedStored
    /\ Len(analysis_results) = 2
    /\ analysis_results[1].data.results # analysis_results[2].data.results
    /\ Len(last.res.matches) > 1
    /\ Len(last.res.matches) < Len(AskedRecords)
    /\ last.res.matches[1].pos > last.res.matches[2].pos

====
